---- MODULE Spec2Model ----
(***************************************************************************)
(* Model of the research orchestration engine of deep-research-server:    *)
(* src/src/utils/research.js, performDirectResearch and the functions it  *)
(* calls (generateSearchQueries, runSearchTasks, reviewSearchResults,     *)
(* writeFinalReport), each of which runs its provider call through        *)
(* withRetry.  createProvider with the mock models of mock-llm and        *)
(* performSearch of web-search (src/unnamed/part_010, the version whose   *)
(* options-object signature research.js calls) choose the backend of each *)
(* call; safeJsonParse, createProvider and performSearch are also run on  *)
(* their own, on every argument of a bounded set.                         *)
(*                                                                         *)
(* Provider texts are represented by what the code inspects of them:      *)
(*   kind "nonstring"  response.text() gave undefined                     *)
(*   kind "unparsable" a string no stage of safeJsonParse can parse       *)
(*   kind "null"       a string that parses to JSON null                  *)
(*   kind "object"     a string that parses to a JSON object (no length)  *)
(*   kind "array"      a string that parses to a JSON array; items holds  *)
(*                     the query text of each element ("" = no text)      *)
(*   kind "empty"      the string ""                                      *)
(*   kind "blank"      a non-empty string of white space only             *)
(*   kind "lines"      a string with `lines` non-blank lines              *)
(***************************************************************************)
EXTENDS Integers, Sequences, FiniteSets, TLC

\* ---------------------------------------------------------------- bounds
MaxIter == 2
MaxQueries == 1
MaxLines == 1
MaxTokens == 3
MaxItems == 2
MaxRetryOption == 6
MaxTasks == 4

\* ------------------------------------------------------ program constants
DefaultMaxRetries == 3
SynthMaxRetries == 2
InitialDelay == 1000
MaxDelay == 30000
Factor == 2
RetryableStatusCodes == {429, 500, 503}
FallbackModel == "gemini-1.5-flash"
ThinkingModel == "gemini-2.0-flash-thinking-exp-01-21"
DefaultOpenRouterModel == "anthropic/claude-3-opus:beta"
DefaultNetworkingModel == "gemini-1.5-pro"
NetworkingModel == "gemini-2.0-flash-001"

NoStatus == 0
NoRetryInfo == 0 - 1

Min(a, b) == IF a < b THEN a ELSE b

\* ------------------------------------------------------------ value shapes
Txt(k) == [kind |-> k, items |-> <<>>, lines |-> 0]
ArrayOf(s) == [kind |-> "array", items |-> s, lines |-> 0]
LinesOf(n) == [kind |-> "lines", items |-> <<>>, lines |-> n]
EmptyArray == ArrayOf(<<>>)

QueryLists == UNION {[1..n -> {"q", ""}] : n \in 0..MaxQueries}

\* what a chat completion can answer to a prompt that asks for a JSON list
JsonTexts ==
  {Txt("nonstring"), Txt("unparsable"), Txt("null"), Txt("object")}
    \cup {ArrayOf(s) : s \in QueryLists}

\* what a chat completion can answer to the per-query synthesis prompt: no
\* string, the empty string, or a text of MaxLines non-blank lines
ContentTexts == {Txt("nonstring"), Txt("empty"), LinesOf(MaxLines)}

\* what a chat completion can answer to the final-report prompt
ReportTexts ==
  {Txt("nonstring"), Txt("empty"), Txt("blank"), LinesOf(1)}

Ok(t) == [ok |-> TRUE, status |-> NoStatus, retryAfter |-> NoRetryInfo, text |-> t]
Err(s, r) == [ok |-> FALSE, status |-> s, retryAfter |-> r, text |-> Txt("none")]

\* the failures of a provider call: rate limit without and with a RetryInfo
\* detail (seconds), server errors, a client error, and an error without
\* status (network, SDK)
ProviderErrors ==
  {Err(429, NoRetryInfo), Err(429, 5), Err(500, NoRetryInfo),
   Err(503, NoRetryInfo), Err(404, NoRetryInfo), Err(NoStatus, NoRetryInfo)}

\* the failures drawn while a whole session runs: one that is retried and
\* one that is not
SessionErrors == {Err(429, NoRetryInfo), Err(NoStatus, NoRetryInfo)}

TextsOf(caller) ==
  CASE caller = "generateSearchQueries" -> JsonTexts
    [] caller = "reviewSearchResults" -> JsonTexts
    [] caller = "runSearchTasks" -> ContentTexts
    [] OTHER -> ReportTexts

ProviderOutcomes(caller, errors) == {Ok(t) : t \in TextsOf(caller)} \cup errors

\* the three default queries built from the topic
DefaultQueries ==
  ArrayOf(<<"Latest research on T", "History of T", "Future trends in T">>)

Falsy(t) == t.kind \in {"nonstring", "null", "empty"}

\* safeJsonParse on a string, by the outcome of its JSON.parse stages
safeJsonParse(text, defaultValue) ==
  IF text.kind \in {"null", "object", "array"} THEN text ELSE defaultValue

\* normalizeMarkdownNewlines: falsy input is returned as it is; on any other
\* string the replacements add or merge newlines only, so the string keeps
\* its non-blank lines and stays non-empty
normalizeMarkdownNewlines(text) ==
  IF Falsy(text) THEN text
  ELSE IF text.kind = "lines" THEN LinesOf(text.lines) ELSE Txt("blank")

\* ------------------------------------------- safeJsonParse, token by token
\* A text is a sequence of tokens:
\*   "F"  the opening fence ```json        "E"  the closing fence ```
\*   "[" "]" "{" "}" "," ":"               "_"  white space
\*   "S"  a double-quoted string literal   "Q"  a single-quoted one
\*   "1"  a digit   "N"  the word null     "a"  any other word character
\* and the value of the code's parameter is such a string or no string at
\* all (undefined, null).
Tokens == {"F", "E", "[", "]", "{", "}", ",", ":", "_", "S", "Q", "1", "N", "a"}
WordTokens == {"1", "N", "a"}

Str(toks) == [js |-> "string", toks |-> toks]
Strings == {Str(t) : t \in UNION {[1..n -> Tokens] : n \in 0..MaxTokens}}
NonStrings == {[js |-> "undefined", toks |-> <<>>], [js |-> "null", toks |-> <<>>]}

RECURSIVE SkipWs(_)
\* the text without its leading white space
SkipWs(s) == IF s # <<>> /\ Head(s) = "_" THEN SkipWs(Tail(s)) ELSE s

RECURSIVE DropTrailingWs(_)
\* the text without its trailing white space
DropTrailingWs(s) ==
  IF s # <<>> /\ s[Len(s)] = "_" THEN DropTrailingWs(SubSeq(s, 1, Len(s) - 1))
  ELSE s

RECURSIVE WordLen(_)
\* the length of the run of word characters the text starts with
WordLen(s) ==
  IF s # <<>> /\ Head(s) \in WordTokens THEN 1 + WordLen(Tail(s)) ELSE 0

\* text.replace(/^```json\s*/, "").replace(/\s*```$/, "").trim()
removeJsonMarkdown(s) ==
  LET a == IF s # <<>> /\ Head(s) = "F" THEN SkipWs(Tail(s)) ELSE s
      b == IF a # <<>> /\ a[Len(a)] = "E"
             THEN DropTrailingWs(SubSeq(a, 1, Len(a) - 1)) ELSE a
  IN DropTrailingWs(SkipWs(b))

\* indexOf of the first '[' or '{' (0: there is none)
FirstJsonChar(s) ==
  IF \E i \in 1..Len(s) : s[i] \in {"[", "{"}
    THEN CHOOSE i \in 1..Len(s) :
           /\ s[i] \in {"[", "{"}
           /\ \A j \in 1..(i - 1) : s[j] \notin {"[", "{"}
    ELSE 0

\* lastIndexOf of the last ']' or '}' (0: there is none)
LastJsonChar(s) ==
  IF \E i \in 1..Len(s) : s[i] \in {"]", "}"}
    THEN CHOOSE i \in 1..Len(s) :
           /\ s[i] \in {"]", "}"}
           /\ \A j \in (i + 1)..Len(s) : s[j] \notin {"]", "}"}
    ELSE 0

\* lines 239-261: the cleaned text
CleanedText(s) ==
  LET a == removeJsonMarkdown(s)
      b == IF FirstJsonChar(a) # 0 THEN SubSeq(a, FirstJsonChar(a), Len(a)) ELSE a
  IN IF LastJsonChar(b) # 0 THEN SubSeq(b, 1, LastJsonChar(b)) ELSE b

\* JSON.parse: a recursive descent over the tokens.  A parse gives the text
\* that is left and the value in canonical form (its tokens without white
\* space), or fails.
ParseFail == [ok |-> FALSE, rest |-> <<>>, canon |-> <<>>]
Parsed(rest, canon) == [ok |-> TRUE, rest |-> rest, canon |-> canon]

RECURSIVE ParseValue(_), ParseElements(_, _), ParseMembers(_, _)
ParseValue(s0) ==
  LET s == SkipWs(s0)
  IN IF s = <<>> THEN ParseFail
     ELSE IF Head(s) = "S" THEN Parsed(Tail(s), <<"S">>)
     ELSE IF Head(s) \in WordTokens
       THEN LET n == WordLen(s)
                w == SubSeq(s, 1, n)
            IN IF w = <<"N">> \/ \A i \in 1..n : w[i] = "1"
                 THEN Parsed(SubSeq(s, n + 1, Len(s)), w)
                 ELSE ParseFail
     ELSE IF Head(s) = "["
       THEN LET t == SkipWs(Tail(s))
            IN IF t # <<>> /\ Head(t) = "]" THEN Parsed(Tail(t), <<"[", "]">>)
               ELSE ParseElements(t, <<"[">>)
     ELSE IF Head(s) = "{"
       THEN LET t == SkipWs(Tail(s))
            IN IF t # <<>> /\ Head(t) = "}" THEN Parsed(Tail(t), <<"{", "}">>)
               ELSE ParseMembers(t, <<"{">>)
     ELSE ParseFail

\* value (',' value)* ']'
ParseElements(s, acc) ==
  LET v == ParseValue(s)
      t == SkipWs(v.rest)
  IN IF ~v.ok \/ t = <<>> THEN ParseFail
     ELSE IF Head(t) = "," THEN ParseElements(Tail(t), acc \o v.canon \o <<",">>)
     ELSE IF Head(t) = "]" THEN Parsed(Tail(t), acc \o v.canon \o <<"]">>)
     ELSE ParseFail

\* string ':' value (',' string ':' value)* '}'
ParseMembers(s0, acc) ==
  LET s == SkipWs(s0)
      c == IF s = <<>> THEN <<>> ELSE SkipWs(Tail(s))
      v == IF c = <<>> THEN ParseFail ELSE ParseValue(Tail(c))
      t == SkipWs(v.rest)
      m == acc \o <<"S", ":">> \o v.canon
  IN IF s = <<>> \/ Head(s) # "S" \/ c = <<>> \/ Head(c) # ":" THEN ParseFail
     ELSE IF ~v.ok \/ t = <<>> THEN ParseFail
     ELSE IF Head(t) = "," THEN ParseMembers(Tail(t), m \o <<",">>)
     ELSE IF Head(t) = "}" THEN Parsed(Tail(t), m \o <<"}">>)
     ELSE ParseFail

\* JSON.parse(s): the whole text has to be one value
JSONparse(s) ==
  LET v == ParseValue(s)
  IN IF v.ok /\ SkipWs(v.rest) = <<>> THEN v ELSE ParseFail

\* cleanedText.replace(/'/g, '"')
WithDoubleQuotes(s) == [i \in 1..Len(s) |-> IF s[i] = "Q" THEN "S" ELSE s[i]]

RECURSIVE WithQuotedProps(_)
\* cleanedText.replace(/([{,])\s*([a-zA-Z0-9_]+)\s*:/g, '$1"$2":')
WithQuotedProps(s) ==
  IF s = <<>> THEN <<>>
  ELSE LET t == SkipWs(Tail(s))
           n == WordLen(t)
           u == SkipWs(SubSeq(t, n + 1, Len(t)))
       IN IF Head(s) \in {"{", ","} /\ n >= 1 /\ u # <<>> /\ Head(u) = ":"
            THEN <<Head(s), "S", ":">> \o WithQuotedProps(Tail(u))
            ELSE <<Head(s)>> \o WithQuotedProps(Tail(s))

\* what a call of safeJsonParse ends with: a value and the stage that gave
\* it, or an error thrown to the caller
Returns(stage, canon) == [kind |-> "returned", stage |-> stage, canon |-> canon]
Throws(e) == [kind |-> "thrown", stage |-> e, canon |-> <<>>]

\* safeJsonParse(text, source, defaultValue), lines 237-289: text.replace of
\* removeJsonMarkdown is called outside the try blocks and throws a TypeError
\* when text is not a string
safeJsonParseText(text) ==
  IF text.js # "string" THEN Throws("TypeError")
  ELSE LET c == CleanedText(text.toks)
       IN IF JSONparse(c).ok THEN Returns("as-is", JSONparse(c).canon)
          ELSE IF JSONparse(WithDoubleQuotes(c)).ok
            THEN Returns("quotes", JSONparse(WithDoubleQuotes(c)).canon)
          ELSE IF JSONparse(WithQuotedProps(c)).ok
            THEN Returns("props", JSONparse(WithQuotedProps(c)).canon)
          ELSE Returns("default", <<>>)

\* ---------------------------------------------- createProvider, mock-llm
\* The backends a provider instance can talk to.  The mock ones answer from
\* mockResponses; the live ones send a request to Google or OpenRouter.
LiveBackends == {"google", "openrouter"}
MockBackends == {"mock-google", "mock-openrouter"}

\* a provider or mock type that is not given is "" (undefined in the code)
ProviderNames == {"", "google", "openrouter", "mock", "other"}
MockTypes == {"", "google", "openrouter"}

\* mockLLM.createMockProvider(provider, model, options)
createMockProvider(provider) ==
  IF provider = "google" THEN "mock-google"
  ELSE IF provider = "openrouter" THEN "mock-openrouter"
  ELSE "mock-google"

\* createProvider that looks at the requested provider only
createProviderAsRequested(provider, mockType, useMockMode) ==
  LET p == IF provider = "" THEN "google" ELSE provider
  IN IF p = "mock"
       THEN createMockProvider(IF mockType = "" THEN "google" ELSE mockType)
       ELSE IF p = "openrouter" THEN "openrouter" ELSE "google"

\* createProvider(provider = "google", model, options = {}, apiKey): the
\* backend of the instance it returns
createProvider(provider, mockType, useMockMode) ==
  LET p0 == IF provider = "" THEN "google" ELSE provider
      p == IF useMockMode /\ p0 # "mock" THEN "mock" ELSE p0
  IN IF p = "mock"
       THEN createMockProvider(IF mockType = "" THEN "google" ELSE mockType)
       ELSE IF p = "google" THEN "google"
       ELSE IF p = "openrouter" THEN "openrouter"
       ELSE "google"

\* a prompt, by what the mock models look for in it: the phrases 'generate
\* search queries', 'technical' or 'scientific', 'process search results' or
\* 'analyze the following search results', 'write a report' or 'create a
\* comprehensive report'
Prompts == [gen : BOOLEAN, tech : BOOLEAN, proc : BOOLEAN, rep : BOOLEAN]

\* generateContent of createMockGoogleModel: the entry of mockResponses
MockGoogleGenerateContent(prompt) ==
  IF prompt.gen
    THEN IF prompt.tech THEN "queryGeneration.technical"
         ELSE "queryGeneration.default"
  ELSE IF prompt.proc THEN "searchProcessing.default"
  ELSE IF prompt.rep
    THEN IF prompt.tech THEN "reportWriting.technical"
         ELSE "reportWriting.default"
  ELSE "defaultArray"

\* generateContent of createMockOpenRouterWrapper
MockOpenRouterGenerateContent(prompt) ==
  IF prompt.gen
    THEN IF prompt.tech THEN "queryGeneration.technical"
         ELSE "queryGeneration.default"
  ELSE IF prompt.proc THEN "searchProcessing.default"
  ELSE IF prompt.rep
    THEN IF prompt.tech THEN "reportWriting.technical"
         ELSE "reportWriting.default"
  ELSE "defaultArray"

\* what a live backend can answer to one prompt: one text or another, or an
\* error
LiveResponses == {"live text 1", "live text 2", "error"}

\* the responses model.generateContent(prompt) can give on a backend
GenerateContent(backend, prompt) ==
  IF backend = "mock-google" THEN {MockGoogleGenerateContent(prompt)}
  ELSE IF backend = "mock-openrouter" THEN {MockOpenRouterGenerateContent(prompt)}
  ELSE LiveResponses

\* a mock response as the caller reads it: the query generation and search
\* processing entries are one-line JSON objects, the report entries are
\* markdown of many lines without a bracket, the default is a one-line JSON
\* array of one query
MockText(response, caller) ==
  LET shape == IF response \in {"reportWriting.default", "reportWriting.technical"}
                 THEN "markdown"
               ELSE IF response = "defaultArray" THEN "array" ELSE "object"
  IN IF caller \in {"generateSearchQueries", "reviewSearchResults"}
       THEN IF shape = "markdown" THEN Txt("unparsable")
            ELSE IF shape = "array" THEN ArrayOf(<<"q">>) ELSE Txt("object")
     ELSE IF caller = "runSearchTasks"
       THEN IF shape = "markdown" THEN LinesOf(MaxLines) ELSE LinesOf(1)
     ELSE LinesOf(1)

\* what fn's provider call can come back with on a backend
BackendOutcomes(backend, caller, errors) ==
  IF backend \in MockBackends
    THEN {Ok(MockText(r, caller)) :
            r \in UNION {GenerateContent(backend, p) : p \in Prompts}}
    ELSE ProviderOutcomes(caller, errors)

\* ------------------------------------------------- web-search: performSearch
\* what the Tavily backend does with one search: no API key is configured
\* (tavily throws before any request), the request fails with a status or on
\* the network, or it answers with results of which some or none have both
\* content and url
TavilyOutcomes == {"nokey", "status429", "network", "hits", "empty"}

SearchProviderNames == {"", "tavily", "mock", "other"}

\* tavily(query, options, maxResults)
tavily(o) ==
  IF o \in {"hits", "empty"}
    THEN [threw |-> FALSE, results |-> o, error |-> "none", live |-> TRUE]
    ELSE [threw |-> TRUE, results |-> "none", error |-> o, live |-> o # "nokey"]

\* The body of a Tavily answer: its `results` property is absent or a list of
\* items; of an item the code reads content and url, each of which is absent
\* ("missing"), the empty string or a text.
FieldValues == {"missing", "", "text"}

RawItems == [content : FieldValues, url : FieldValues]

RawResponses ==
  {[results |-> "absent", items |-> <<>>]} \cup
  {[results |-> "list", items |-> s] :
     s \in UNION {[1..n -> RawItems] : n \in 0..MaxItems}}

\* no answer was read: the request failed or was never sent
NoResponse == [results |-> "none", items |-> <<>>]

Truthy(v) == v \notin {"missing", ""}

\* a filter that lets every item through
KeepsEveryItem(item) == TRUE

\* .filter((item) => item.content && item.url)
Keeps(item) == Truthy(item.content) /\ Truthy(item.url)

\* result.content || "", result.url || ""
OrEmpty(v) == IF Truthy(v) THEN v ELSE ""

\* formattedResults of tavily: (results || []).filter(...).map(...)
formattedResults(raw) ==
  LET kept == SelectSeq(raw.items, Keeps)
  IN [i \in 1..Len(kept) |->
        [content |-> OrEmpty(kept[i].content), url |-> OrEmpty(kept[i].url)]]

\* what tavily does when the answer has body raw
TavilyAnswer(raw) == IF formattedResults(raw) = <<>> THEN "empty" ELSE "hits"

\* mockResults of mockSearch: two results with a fixed url and a content that
\* embeds the query between fixed words
mockResults ==
  <<[content |-> "text", url |-> "text"], [content |-> "text", url |-> "text"]>>

\* the `results` list of the value performSearch returned as s
ResultList(s, raw) ==
  IF s.threw THEN <<>>
  ELSE IF s.results = "mock" THEN mockResults
  ELSE formattedResults(raw)

\* mockSearch(query): two fixed results built from the query
mockSearch ==
  [threw |-> FALSE, results |-> "mock", error |-> "none", live |-> FALSE]

\* a search that is sent to the backend although search is disabled
SearchDisabledIgnored(e) == FALSE

\* !settings.app.appSettings.enableSearch (lines 155-159)
SearchDisabled(e) == ~e.enableSearch

\* a search that does not look at USE_MOCK_MODE
MockModeOverrideNever(sp, e) == FALSE

\* process.env.USE_MOCK_MODE === 'true' && searchProvider !== 'mock'
MockModeOverride(sp, e) == e.useMockMode /\ sp # "mock"

\* a failed search answered by the mock results whatever the policy says
FallsBackToMockAlways(e) == TRUE

\* settings.app.appSettings.useMockWhenKeysAreMissing, read by the catch
\* blocks of lines 181-190 and 199-213
FallsBackToMock(e) == e.useMockWhenKeysAreMissing

\* performSearch(query, options) under settings and environment e, when the
\* Tavily backend would do o: the value returned or the error thrown, and
\* whether a request went to the live backend
performSearch(searchProvider, e, o) ==
  LET sp == IF searchProvider = "" THEN "tavily" ELSE searchProvider
      t == tavily(o)
  IN IF SearchDisabled(e) THEN mockSearch
     ELSE IF MockModeOverride(sp, e) THEN mockSearch
     ELSE IF sp = "tavily"
       THEN IF t.threw /\ FallsBackToMock(e)
              THEN [mockSearch EXCEPT !.live = t.live]
              ELSE t
     ELSE mockSearch

\* ----------------------------------------- routes: POST /api/research/query
\* A request, by what the handler looks at: whether the parsed body is an
\* object, its `query` property, whether ResearchQuerySchema accepts the body
\* once the numeric strings are converted, whether the body asks for product
\* mode (and passes that mode's schema), and what performDirectResearch and
\* saveReportToFile will do.  The schema requires query to be a non-empty
\* string.
ProductModes == {"none", "new", "new-invalid", "legacy", "legacy-invalid"}

Requests ==
  {r \in [body : {"object", "other"}, query : {"missing", "", "text"},
          valid : BOOLEAN, product : ProductModes,
          research : {"resolves", "rejects"}, save : {"saved", "fails"}] :
     /\ r.valid => r.query = "text"
     /\ r.body = "other" => (r.query = "missing" /\ ~r.valid /\ r.product = "none")}

DefaultQuery == "General research topic"

\* a body that is no object is replaced by {query: "General research topic"}
\* (lines 133-148), which the schema accepts
SchemaAccepts(r) == r.body = "other" \/ r.valid

\* the query the research runs on: the validated one, or req.body.query with
\* the default in place of a missing or empty one (lines 415-429)
QueryUsed(r) ==
  IF r.body = "other" \/ r.query \in {"missing", ""} THEN DefaultQuery
  ELSE "the query of the body"

\* a report is a string; `about` tells which text it is
ReportString(about) == [js |-> "string", about |-> about]

\* res.json(body): status 200
Json(report, saved) ==
  [status |-> 200, report |-> report, filePath |-> saved, error |-> ~saved]

\* a handler that answers a rejected research with res.status(500).json({error})
AfterResearchErrorStatus(r) ==
  [status |-> 500, report |-> [js |-> "undefined", about |-> "none"],
   filePath |-> FALSE, error |-> TRUE]

\* the catch block of lines 473-482: the basic error report, then the saving
\* like for any report
AfterResearchError(r) ==
  Json(ReportString("Error During Research"), r.save = "saved")

\* the product branches (lines 250-300, 315-360): performProductResearch is
\* imported from utils/research, whose module.exports has no such property,
\* so the call throws inside the try block and its catch block answers with
\* the product error report
ProductResearch(r) ==
  Json(ReportString("Product Research Report: Error During Research"),
       r.save = "saved")

\* the standard branch from line 461 on
StandardResearch(r) ==
  IF r.research = "resolves"
    THEN Json(ReportString("performDirectResearch"), r.save = "saved")
    ELSE AfterResearchError(r)

\* router.post('/query', ...)
queryHandler(r) ==
  IF r.product \in {"new", "legacy"} THEN ProductResearch(r)
  ELSE StandardResearch(r)

\* ------------------------------------------------------------- withRetry
\* The frame of one withRetry call: the options it was called with, its
\* locals (attempt, delay), the context object handed to fn, and a record
\* of what it did (one log entry per invocation of fn, one sleep per retry).
IdleRetry ==
  [caller |-> "none", phase |-> "idle", maxRetries |-> 0, attempt |-> 0,
   delay |-> 0, original |-> "none", ctxModel |-> "none", log |-> <<>>,
   sleeps |-> <<>>, sleeping |-> 0, value |-> Txt("none"),
   error |-> [id |-> 0, status |-> NoStatus, retryAfter |-> NoRetryInfo],
   prevModel |-> "none"]

\* withRetry(fn, {maxRetries, fallbackModel, context: {model}}) up to the
\* first attempt
NewRetry(caller, maxRetries, model) ==
  [IdleRetry EXCEPT !.caller = caller, !.phase = "attempt",
                    !.maxRetries = maxRetries, !.delay = InitialDelay,
                    !.original = model, !.ctxModel = model]

\* withRetry has returned or thrown: its context object is no longer used;
\* prevModel remembers the model name that object ended on
Released(r) == [IdleRetry EXCEPT !.prevModel = r.ctxModel]

\* one context object handed from call to call
ContextShared(prev, model) ==
  IF prev.prevModel = "none" THEN model ELSE prev.prevModel

\* context: { model: thinkingModel } or { model: networkingModel }: each
\* call site builds a new object that holds the model getModel chose
ContextFor(prev, model) == model

\* withRetry called by a step of a session that follows the call prev
StartRetry(prev, caller, maxRetries, model) ==
  [NewRetry(caller, maxRetries, ContextFor(prev, model))
     EXCEPT !.prevModel = prev.prevModel]

\* getModel(provider = "google", requestedModel) with none of
\* DEFAULT_LLM_PROVIDER, DEFAULT_THINKING_MODEL, DEFAULT_NETWORKING_MODEL and
\* DEFAULT_OPENROUTER_MODEL set; a model that is not requested is ""
getModel(provider, requestedModel) ==
  LET p == IF provider = "" THEN "google" ELSE provider
  IN IF requestedModel # ""
       THEN [thinkingModel |-> requestedModel,
             networkingModel |-> requestedModel]
     ELSE IF p = "google"
       THEN [thinkingModel |-> ThinkingModel,
             networkingModel |-> NetworkingModel]
     ELSE IF p = "openrouter"
       THEN [thinkingModel |-> DefaultOpenRouterModel,
             networkingModel |-> DefaultOpenRouterModel]
     ELSE [thinkingModel |-> FallbackModel,
           networkingModel |-> DefaultNetworkingModel]

\* the model of getModel that a caller of withRetry uses
CallerModel(caller, provider, requestedModel) ==
  IF caller \in {"generateSearchQueries", "reviewSearchResults"}
    THEN getModel(provider, requestedModel).thinkingModel
    ELSE getModel(provider, requestedModel).networkingModel

\* every caller passing the same maxRetries option
CallerMaxRetriesSame(caller) == DefaultMaxRetries

\* the maxRetries option a caller of withRetry passes
CallerMaxRetries(caller) ==
  IF caller = "runSearchTasks" THEN SynthMaxRetries ELSE DefaultMaxRetries

\* const modelToUse = context.model || thinkingModel
ModelToUse(ctxModel, original) ==
  IF ctxModel # "none" /\ ctxModel # "" THEN ctxModel ELSE original

\* a fallback model that is asked for where it lives, at Google
fnProviderOfModel(e, model) ==
  IF model = FallbackModel
    THEN createProvider("google", "", e.useMockMode)
    ELSE createProvider(e.provider, "", e.useMockMode)

\* createProvider(provider, modelToUse) inside the function handed to
\* withRetry: the backend of the instance the attempt talks to
fnProvider(e, model) == createProvider(e.provider, "", e.useMockMode)

\* a text that cannot be parsed reported as a server error
fnParseFailureRetried(caller, outcome) ==
  IF outcome.ok /\ outcome.text.kind \in {"unparsable", "nonstring"}
    THEN Err(503, NoRetryInfo)
    ELSE outcome

\* the async function handed to withRetry by each of the four callers: the
\* provider call followed by what the caller does with the text
fn(caller, outcome) ==
  IF ~outcome.ok THEN outcome
  ELSE CASE caller = "generateSearchQueries" ->
              IF outcome.text.kind = "nonstring"
                THEN Err(NoStatus, NoRetryInfo)
                ELSE Ok(safeJsonParse(outcome.text, DefaultQueries))
         [] caller = "reviewSearchResults" ->
              IF outcome.text.kind = "nonstring"
                THEN Err(NoStatus, NoRetryInfo)
                ELSE Ok(safeJsonParse(outcome.text, EmptyArray))
         [] caller = "runSearchTasks" -> outcome
         [] OTHER -> Ok(normalizeMarkdownNewlines(outcome.text))

\* the fallback model used for the first retry only
ModelForAttemptOnce(r) ==
  IF r.attempt = 1 /\ r.ctxModel # "none" /\ FallbackModel # "none"
    THEN FallbackModel ELSE r.original

\* the model the context shows to the attempt that is about to run
ModelForAttempt(r) ==
  IF r.attempt > 0 /\ r.ctxModel # "none" /\ FallbackModel # "none"
    THEN FallbackModel ELSE r.ctxModel

\* only the rate limit status is retried
isRateLimitErrorOnly429(e) == e.status = 429

isRateLimitError(e) == e.status # NoStatus /\ e.status \in RetryableStatusCodes

\* the retry budget counted one too small
GivesUpEarly(r, e) == r.attempt + 1 >= r.maxRetries \/ ~isRateLimitError(e)

\* attempt >= maxRetries || !isRateLimitError
GivesUp(r, e) == r.attempt >= r.maxRetries \/ ~isRateLimitError(e)

\* the delay slept before the next attempt
RetryDelay(r, e) ==
  Min(IF e.retryAfter # NoRetryInfo THEN e.retryAfter * 1000 ELSE r.delay,
      MaxDelay)

\* the error wrapped into a new one
ThrownWrapped(id, e) == [id |-> 0, status |-> NoStatus, retryAfter |-> NoRetryInfo]

\* the error withRetry throws when it gives up on error e of invocation id
Thrown(id, e) == [id |-> id, status |-> e.status, retryAfter |-> e.retryAfter]

\* one pass of the loop body of withRetry: the try block and, on an error,
\* the catch block up to the sleep (lastError is kept in error)
withRetryAttempt(r, outcome) ==
  LET m == ModelForAttempt(r)
      res == fn(r.caller, outcome)
      lg == Append(r.log, [model |-> m, ok |-> res.ok, status |-> res.status,
                           retryAfter |-> res.retryAfter, val |-> res.text,
                           text |-> outcome.text])
      r1 == [r EXCEPT !.ctxModel = m, !.log = lg]
  IN IF res.ok THEN [r1 EXCEPT !.phase = "resolved", !.value = res.text]
     ELSE IF GivesUp(r, res)
       THEN [r1 EXCEPT !.phase = "rejected", !.error = Thrown(Len(lg), res)]
       ELSE [r1 EXCEPT !.phase = "sleep", !.error = Thrown(Len(lg), res),
                       !.sleeping = RetryDelay(r, res)]

\* a base delay that doubles without limit
NextDelayUncapped(d) == d * Factor

\* delay = Math.min(delay * factor, maxDelay)
NextDelay(d) == Min(d * Factor, MaxDelay)

\* the rest of the catch block: the sleep is over, the base delay doubles,
\* attempt++; when the loop condition attempt <= maxRetries fails, line 447
\* throws lastError
withRetryWake(r) ==
  [r EXCEPT !.phase = IF r.attempt + 1 <= r.maxRetries THEN "attempt"
                      ELSE "rejected",
            !.sleeps = Append(r.sleeps, r.sleeping),
            !.sleeping = 0, !.delay = NextDelay(r.delay),
            !.attempt = r.attempt + 1]

\* a caller that goes on after a resolved withRetry only
SettledResolved(r) == r.phase = "resolved"

Settled(r) == r.phase \in {"resolved", "rejected"}

\* ------------------------------------------------ performDirectResearch
VARIABLES
  pc,                \* where performDirectResearch stands
  maxIterations,     \* its argument
  currentIteration,  \* its local; 0 until line 954 declares it
  queries,           \* the query list handed to the next runSearchTasks
  taskIdx,           \* runSearchTasks: the query whose task is running
  sources,           \* runSearchTasks: the sources of the running task
  results,           \* runSearchTasks: the shared results array
  allLearnings,      \* the learning set
  rt,                \* the frame of the withRetry call in progress
  report,            \* the value performDirectResearch returned
  reviewCount,       \* calls of reviewSearchResults so far
  searchRounds,      \* calls of runSearchTasks so far
  env,               \* process.env, the settings and the request's providers
  liveCalls,         \* the live backends a request was sent to so far
  arg,               \* the arguments of a function that is run on its own
  ret,               \* what that function returned or threw
  tasks,             \* runSearchTasks on its own: the task of each query
  calls              \* a session whose calls are counted: how many so far

vars == <<pc, maxIterations, currentIteration, queries, taskIdx, sources,
          results, allLearnings, rt, report, reviewCount, searchRounds,
          env, liveCalls, arg, ret, tasks, calls>>

IterValues == {0 - 1, 0} \cup (1..MaxIter)

\* the calls of a session that is not counted, and of one that is, at its
\* start.  most: the provider invocations the withRetry calls made so far
\* can have made at most (maxRetries + 1 each); exact: every withRetry call
\* that returned used all of them, so that most is the number of invocations
\* made; search: performSearch calls; queries: queries handed to
\* runSearchTasks
NotCounted ==
  [on |-> FALSE, most |-> 0, exact |-> TRUE, search |-> 0, queries |-> 0]
NoCallYet == [NotCounted EXCEPT !.on = TRUE]

Counted(c, what, n) == IF c.on THEN [c EXCEPT ![what] = @ + n] ELSE c

\* the for loop of withRetry runs attempt = 0..maxRetries
Started(c, caller) == Counted(c, "most", CallerMaxRetries(caller) + 1)

\* the withRetry call of frame r returned or threw
Finished(c, r) ==
  IF c.on THEN [c EXCEPT !.exact = @ /\ Len(r.log) = r.maxRetries + 1]
  ELSE c

\* a session against the live backends: USE_MOCK_MODE is not set, the request
\* names google and tavily, a failed search is not replaced by mock results
LiveEnv ==
  [useMockMode |-> FALSE, provider |-> "google", searchProvider |-> "tavily",
   enableSearch |-> TRUE, useMockWhenKeysAreMissing |-> FALSE]

\* the sessions with USE_MOCK_MODE=true, whatever the request names
MockEnvs ==
  [useMockMode : {TRUE}, provider : {"google", "openrouter", "mock"},
   searchProvider : {"tavily", "mock"}, enableSearch : {TRUE},
   useMockWhenKeysAreMissing : BOOLEAN]

SessionEnvs == {LiveEnv} \cup MockEnvs

NoArg == [kind |-> "none"]
NoRet == [kind |-> "none"]

NoReport == [kind |-> "none", text |-> Txt("none"), learnings |-> <<>>]

\* the finding kept for the case that no learning was collected (line 950)
Placeholder == <<0, 0, 0>>

\* the content used when the synthesis of a query failed (line 655)
FallbackContent == LinesOf(1)

\* a failed synthesis that leaves no finding
LearningsWithoutFallback(content, failed, round, q) ==
  IF failed THEN <<>>
  ELSE [j \in 1..content.lines |-> <<round, q, j>>]

\* content.split("\n").filter(non-blank).map(strip numbering): one finding
\* per non-blank line; finding <<round, query, line>>, line 0 marking the
\* line of the fallback content
Learnings(content, failed, round, q) ==
  IF failed THEN << <<round, q, 0>> >>
  ELSE [j \in 1..content.lines |-> <<round, q, j>>]

RECURSIVE Flatten(_)
\* results.forEach(result => allLearnings = [...allLearnings, ...result.learnings])
Flatten(rs) ==
  IF rs = <<>> THEN <<>> ELSE rs[1].learnings \o Flatten(Tail(rs))

\* the findings numbered by their index
NumberedFromZero(ls) == [i \in 1..Len(ls) |-> <<i - 1, ls[i]>>]

\* learnings.map((learning, index) => `${index + 1}. ${learning}`)
Numbered(ls) == [i \in 1..Len(ls) |-> <<i, ls[i]>>]

\* the degraded report of writeFinalReport's catch block (lines 857-865) and
\* of performDirectResearch's inner catch block (lines 1054-1060)
ErrorReport(ls) ==
  [kind |-> "degraded", text |-> LinesOf(4 + Len(ls)), learnings |-> Numbered(ls)]

\* performDirectResearch without its outermost catch block: the error leaves
\* the function
FatalReportThrown == [kind |-> "thrown", text |-> Txt("none"), learnings |-> <<>>]

\* the report of performDirectResearch's outermost catch block (1069-1074)
FatalReport == [kind |-> "fatal", text |-> LinesOf(4), learnings |-> <<>>]

Init ==
  /\ pc = "Step1"
  /\ maxIterations \in IterValues
  /\ currentIteration = 0
  /\ queries = EmptyArray
  /\ taskIdx = 0
  /\ sources = "none"
  /\ results = <<>>
  /\ allLearnings = <<>>
  /\ rt = IdleRetry
  /\ report = NoReport
  /\ reviewCount = 0
  /\ searchRounds = 0
  /\ env \in SessionEnvs
  /\ liveCalls = {}
  /\ arg = NoArg
  /\ ret = NoRet
  /\ tasks = <<>>
  /\ calls = NotCounted

\* ---- withRetry, whoever called it
\* fn(context) is invoked and the provider answers or fails
WithRetryAttempt ==
  /\ rt.phase = "attempt"
  /\ pc # "withRetry"
  /\ LET backend == createProvider(env.provider, "", env.useMockMode)
     IN /\ \E outcome \in BackendOutcomes(backend, rt.caller, SessionErrors) :
             rt' = withRetryAttempt(rt, outcome)
        /\ liveCalls' = IF backend \in LiveBackends
                          THEN liveCalls \cup {backend} ELSE liveCalls
  /\ UNCHANGED <<env, arg, ret, tasks, calls>>
  /\ UNCHANGED <<pc, maxIterations, currentIteration, queries, taskIdx,
                 sources, results, allLearnings, report, reviewCount,
                 searchRounds>>

\* await sleep(retryDelay) returns
WithRetryWake ==
  /\ rt.phase = "sleep"
  /\ rt' = withRetryWake(rt)
  /\ UNCHANGED <<env, liveCalls, arg, ret, tasks, calls>>
  /\ UNCHANGED <<pc, maxIterations, currentIteration, queries, taskIdx,
                 sources, results, allLearnings, report, reviewCount,
                 searchRounds>>

\* ---- Step 1: generateSearchQueries
GenerateSearchQueriesCall ==
  /\ pc = "Step1"
  /\ rt' = StartRetry(rt, "generateSearchQueries",
                      CallerMaxRetries("generateSearchQueries"),
                      CallerModel("generateSearchQueries", env.provider, ""))
  /\ pc' = "GenWait"
  /\ calls' = Started(calls, "generateSearchQueries")
  /\ UNCHANGED <<env, liveCalls, arg, ret, tasks>>
  /\ UNCHANGED <<maxIterations, currentIteration, queries, taskIdx, sources,
                 results, allLearnings, report, reviewCount, searchRounds>>

\* generateSearchQueries returns {queries: result} or, from its catch block,
\* the default queries; line 918 then reads queries.length, which throws on
\* null and lands in the outermost catch block
GenerateSearchQueriesReturn ==
  /\ pc = "GenWait"
  /\ Settled(rt)
  /\ LET q == IF rt.phase = "resolved" THEN rt.value ELSE DefaultQueries
     IN IF q.kind = "null"
          THEN /\ report' = FatalReport
               /\ pc' = "Done"
               /\ UNCHANGED queries
          ELSE /\ queries' = q
               /\ pc' = "Step2"
               /\ UNCHANGED report
  /\ rt' = Released(rt)
  /\ calls' = Finished(calls, rt)
  /\ UNCHANGED <<env, liveCalls, arg, ret, tasks>>
  /\ UNCHANGED <<maxIterations, currentIteration, taskIdx, sources, results,
                 allLearnings, reviewCount, searchRounds>>

\* ---- Step 2 and the loop body: runSearchTasks
SearchOutcomes == {"hits", "empty", "status429"}

\* the local sources of a task: the results of the search, or [] after the
\* catch block of lines 610-617 ran ("caught")
SourcesOf(s) == IF s.threw THEN "caught" ELSE s.results

\* a search error that is not caught: the task ends with it
AfterSearchUncaught(s) == IF s.threw THEN "TaskRejected" ELSE "SynthWait"

\* where the task goes after performSearch: the try block of lines 591-609
\* or the catch block of lines 610-617, then the synthesis either way
AfterSearch(s) == "SynthWait"

\* the sources array a result is pushed with
SourceList(src) == IF src = "caught" THEN "empty" ELSE src

\* runSearchTasks up to the start of the first task; a queries value that is
\* not a non-empty array returns {results: []} at once (lines 574-577)
RunSearchTasksCall ==
  /\ pc \in {"Step2", "Step3Search"}
  /\ searchRounds' = searchRounds + 1
  /\ results' = <<>>
  /\ IF queries.kind # "array" \/ Len(queries.items) = 0
       THEN pc' = "Collect" /\ taskIdx' = 0
       ELSE pc' = "Task" /\ taskIdx' = 1
  /\ calls' = Counted(calls, "queries", IF queries.kind = "array"
                                          THEN Len(queries.items) ELSE 0)
  /\ UNCHANGED <<env, liveCalls, arg, ret, tasks>>
  /\ UNCHANGED <<maxIterations, currentIteration, queries, sources,
                 allLearnings, rt, report, reviewCount>>

\* after the task of query taskIdx: the next task, or Promise.allSettled
\* resolves and runSearchTasks returns {results}
AfterTask ==
  /\ taskIdx' = taskIdx + 1
  /\ pc' = IF taskIdx = Len(queries.items) THEN "Collect" ELSE "Task"

\* a query without query text: its task returns null (lines 582-585)
TaskSkip ==
  /\ pc = "Task"
  /\ queries.items[taskIdx] = ""
  /\ AfterTask
  /\ UNCHANGED <<env, liveCalls, arg, ret, tasks, calls>>
  /\ UNCHANGED <<maxIterations, currentIteration, queries, sources, results,
                 allLearnings, rt, report, reviewCount, searchRounds>>

\* performSearch answers or throws (an error leaves sources = []), then the
\* task calls withRetry for the synthesis (lines 587-647)
TaskSearch ==
  /\ pc = "Task"
  /\ queries.items[taskIdx] # ""
  /\ \E o \in SearchOutcomes :
       LET s == performSearch(env.searchProvider, env, o)
       IN /\ sources' = SourcesOf(s)
          /\ liveCalls' = IF s.live THEN liveCalls \cup {"tavily"}
                          ELSE liveCalls
          /\ pc' = AfterSearch(s)
  /\ calls' = Started(Counted(calls, "search", 1), "runSearchTasks")
  /\ rt' = StartRetry(rt, "runSearchTasks",
                      CallerMaxRetries("runSearchTasks"),
                      CallerModel("runSearchTasks", env.provider, ""))
  /\ UNCHANGED <<env, arg, ret, tasks>>
  /\ UNCHANGED <<maxIterations, currentIteration, queries, taskIdx, results,
                 allLearnings, report, reviewCount, searchRounds>>

\* the synthesis settled: the content (or the fallback content) is split into
\* learnings and the result is pushed; content that is not a string makes
\* content.split throw, the task rejects and pushes nothing (lines 648-673)
TaskSynthReturn ==
  /\ pc = "SynthWait"
  /\ Settled(rt)
  /\ LET failed == rt.phase = "rejected"
         content == IF failed THEN FallbackContent ELSE rt.value
     IN IF ~failed /\ content.kind = "nonstring"
          THEN UNCHANGED results
          ELSE results' = Append(results,
                 [query |-> taskIdx, sources |-> SourceList(sources),
                  learnings |-> Learnings(content, failed, searchRounds, taskIdx)])
  /\ AfterTask
  /\ rt' = Released(rt)
  /\ calls' = Finished(calls, rt)
  /\ sources' = "none"
  /\ UNCHANGED <<env, liveCalls, arg, ret, tasks>>
  /\ UNCHANGED <<maxIterations, currentIteration, queries, allLearnings,
                 report, reviewCount, searchRounds>>

\* the learnings of the first round without the check of their number
FirstLearningsAsCollected(rs) == Flatten(rs)

\* lines 940-951: the learnings of the first round's results, or the
\* placeholder when there is none
FirstLearnings(rs) ==
  IF Flatten(rs) = <<>> THEN <<Placeholder>> ELSE Flatten(rs)

\* lines 940-954: the learnings of the first round, the placeholder when
\* there is none, and currentIteration = 1
CollectLearnings ==
  /\ pc = "Collect"
  /\ currentIteration = 0
  /\ allLearnings' = FirstLearnings(results)
  /\ currentIteration' = 1
  /\ results' = <<>>
  /\ pc' = "Loop"
  /\ UNCHANGED <<env, liveCalls, arg, ret, tasks, calls>>
  /\ UNCHANGED <<maxIterations, queries, taskIdx, sources, rt, report,
                 reviewCount, searchRounds>>

\* the additional round's learnings replacing the collection
AddLearningsReplacing ==
  /\ pc = "Collect"
  /\ currentIteration >= 1
  /\ allLearnings' = Flatten(results)
  /\ currentIteration' = currentIteration + 1
  /\ results' = <<>>
  /\ pc' = "Loop"
  /\ UNCHANGED <<env, liveCalls, arg, ret, tasks, calls>>
  /\ UNCHANGED <<maxIterations, queries, taskIdx, sources, rt, report,
                 reviewCount, searchRounds>>

\* lines 1007-1024: the learnings of an additional round, currentIteration++
AddLearnings ==
  /\ pc = "Collect"
  /\ currentIteration >= 1
  /\ allLearnings' = allLearnings \o Flatten(results)
  /\ currentIteration' = currentIteration + 1
  /\ results' = <<>>
  /\ pc' = "Loop"
  /\ UNCHANGED <<env, liveCalls, arg, ret, tasks, calls>>
  /\ UNCHANGED <<maxIterations, queries, taskIdx, sources, rt, report,
                 reviewCount, searchRounds>>

\* ---- Step 3: the review loop
\* the loop condition with <= for <
LoopConditionInclusive(cur, max) == cur <= max

\* the condition of while (currentIteration < maxIterations)
LoopCondition(cur, max) == cur < max

\* the loop condition holds: reviewSearchResults is called
ReviewSearchResultsCall ==
  /\ pc = "Loop"
  /\ LoopCondition(currentIteration, maxIterations)
  /\ reviewCount' = reviewCount + 1
  /\ rt' = StartRetry(rt, "reviewSearchResults",
                      CallerMaxRetries("reviewSearchResults"),
                      CallerModel("reviewSearchResults", env.provider, ""))
  /\ pc' = "ReviewWait"
  /\ calls' = Started(calls, "reviewSearchResults")
  /\ UNCHANGED <<env, liveCalls, arg, ret, tasks>>
  /\ UNCHANGED <<maxIterations, currentIteration, queries, taskIdx, sources,
                 results, allLearnings, report, searchRounds>>

\* the loop condition is false
LoopExit ==
  /\ pc = "Loop"
  /\ ~LoopCondition(currentIteration, maxIterations)
  /\ pc' = "Step4"
  /\ UNCHANGED <<env, liveCalls, arg, ret, tasks, calls>>
  /\ UNCHANGED <<maxIterations, currentIteration, queries, taskIdx, sources,
                 results, allLearnings, rt, report, reviewCount, searchRounds>>

\* additionalQueries = reviewResult.queries || []
AdditionalQueries(r) ==
  LET q == IF r.phase = "resolved" THEN r.value ELSE EmptyArray
  IN IF Falsy(q) THEN EmptyArray ELSE q

\* !additionalQueries || additionalQueries.length === 0 (an object has no
\* length, and undefined === 0 is false)
NoAdditionalQueries(a) == a.kind = "array" /\ Len(a.items) = 0

\* reviewSearchResults returned: break, or go on with the additional queries
ReviewSearchResultsReturn ==
  /\ pc = "ReviewWait"
  /\ Settled(rt)
  /\ LET a == AdditionalQueries(rt)
     IN IF NoAdditionalQueries(a)
          THEN pc' = "Step4" /\ UNCHANGED queries
          ELSE pc' = "Step3Search" /\ queries' = a
  /\ rt' = Released(rt)
  /\ calls' = Finished(calls, rt)
  /\ UNCHANGED <<env, liveCalls, arg, ret, tasks>>
  /\ UNCHANGED <<maxIterations, currentIteration, taskIdx, sources, results,
                 allLearnings, report, reviewCount, searchRounds>>

\* ---- Step 4: writeFinalReport
WriteFinalReportCall ==
  /\ pc = "Step4"
  /\ rt' = StartRetry(rt, "writeFinalReport",
                      CallerMaxRetries("writeFinalReport"),
                      CallerModel("writeFinalReport", env.provider, ""))
  /\ pc' = "FinalWait"
  /\ calls' = Started(calls, "writeFinalReport")
  /\ UNCHANGED <<env, liveCalls, arg, ret, tasks>>
  /\ UNCHANGED <<maxIterations, currentIteration, queries, taskIdx, sources,
                 results, allLearnings, report, reviewCount, searchRounds>>

\* what performDirectResearch returns once writeFinalReport settled:
\* writeFinalReport gives {report} or the degraded report of its catch
\* block; reportResult.report.length (line 1045) throws on undefined and the
\* inner catch block builds the degraded report itself
FinalReport(r, ls) ==
  IF r.phase = "rejected" THEN ErrorReport(ls)
  ELSE IF r.value.kind = "nonstring" THEN ErrorReport(ls)
  ELSE [kind |-> "llm", text |-> r.value, learnings |-> <<>>]

WriteFinalReportReturn ==
  /\ pc = "FinalWait"
  /\ Settled(rt)
  /\ report' = FinalReport(rt, allLearnings)
  /\ pc' = "Done"
  /\ rt' = Released(rt)
  /\ calls' = Finished(calls, rt)
  /\ UNCHANGED <<env, liveCalls, arg, ret, tasks>>
  /\ UNCHANGED <<maxIterations, currentIteration, queries, taskIdx, sources,
                 results, allLearnings, reviewCount, searchRounds>>

Next ==
  \/ WithRetryAttempt
  \/ WithRetryWake
  \/ GenerateSearchQueriesCall
  \/ GenerateSearchQueriesReturn
  \/ RunSearchTasksCall
  \/ TaskSkip
  \/ TaskSearch
  \/ TaskSynthReturn
  \/ CollectLearnings
  \/ AddLearnings
  \/ ReviewSearchResultsCall
  \/ LoopExit
  \/ ReviewSearchResultsReturn
  \/ WriteFinalReportCall
  \/ WriteFinalReportReturn

Spec == Init /\ [][Next]_vars

\* every call the session waits for returns or fails, and the event loop
\* runs every continuation that is ready
FairSpec == Spec /\ WF_vars(Next)

\* the steps that wait for an answer from outside the process: the provider
\* request inside fn and the search request, unless a mock answers them
NetworkStep == ~env.useMockMode /\ (WithRetryAttempt \/ TaskSearch)

\* The session when a request may stay unanswered: the awaits on fetch and on
\* generateContent carry no timeout and no abort signal, and
\* performDirectResearch takes no deadline, so only the steps that do not
\* wait for the network are sure to happen.
PendingSpec == Spec /\ WF_vars(Next /\ ~NetworkStep)

\* The session against the live backends with its calls counted: the
\* withRetry calls by the invocations they can make, the performSearch calls
\* and the queries handed to runSearchTasks.
InitCount ==
  /\ pc = "Step1"
  /\ maxIterations \in IterValues
  /\ currentIteration = 0
  /\ queries = EmptyArray
  /\ taskIdx = 0
  /\ sources = "none"
  /\ results = <<>>
  /\ allLearnings = <<>>
  /\ rt = IdleRetry
  /\ report = NoReport
  /\ reviewCount = 0
  /\ searchRounds = 0
  /\ env = LiveEnv
  /\ liveCalls = {}
  /\ arg = NoArg
  /\ ret = NoRet
  /\ tasks = <<>>
  /\ calls = NoCallYet

CountSpec == InitCount /\ [][Next]_vars

\* ------------------------------------------------- withRetry on its own
\* withRetry as each of its four call sites calls it (lines 509-513,
\* 643-647, 749-753, 843-847), with every kind of provider failure
CallSites ==
  {NewRetry("generateSearchQueries", DefaultMaxRetries, ThinkingModel),
   NewRetry("runSearchTasks", SynthMaxRetries, NetworkingModel),
   NewRetry("reviewSearchResults", DefaultMaxRetries, ThinkingModel),
   NewRetry("writeFinalReport", DefaultMaxRetries, NetworkingModel)}

InitRetry ==
  /\ pc = "withRetry"
  /\ maxIterations = 1
  /\ currentIteration = 0
  /\ queries = EmptyArray
  /\ taskIdx = 0
  /\ sources = "none"
  /\ results = <<>>
  /\ allLearnings = <<>>
  /\ rt \in CallSites
  /\ report = NoReport
  /\ reviewCount = 0
  /\ searchRounds = 0
  /\ env = LiveEnv
  /\ liveCalls = {}
  /\ arg = NoArg
  /\ ret = NoRet
  /\ tasks = <<>>
  /\ calls = NotCounted

\* fn(context) is invoked and the provider answers or fails
RetryAttempt ==
  /\ pc = "withRetry"
  /\ rt.phase = "attempt"
  /\ \E outcome \in ProviderOutcomes(rt.caller, ProviderErrors) :
       rt' = withRetryAttempt(rt, outcome)
  /\ UNCHANGED <<env, liveCalls, arg, ret, tasks, calls>>
  /\ UNCHANGED <<pc, maxIterations, currentIteration, queries, taskIdx,
                 sources, results, allLearnings, report, reviewCount,
                 searchRounds>>

\* await sleep(retryDelay) returns
RetryWake ==
  /\ pc = "withRetry"
  /\ WithRetryWake

NextRetry == RetryAttempt \/ RetryWake

RetrySpec == InitRetry /\ [][NextRetry]_vars

\* withRetry called with a larger maxRetries option, so that the base delay
\* reaches maxDelay, on an operation that succeeds, fails without a status,
\* or is rate limited without or with a RetryInfo detail of 0, 5 or 45 seconds
RetryAfterSeconds == {0, 5, 45}

BackoffOutcomes ==
  {Ok(LinesOf(1)), Err(NoStatus, NoRetryInfo), Err(429, NoRetryInfo)}
    \cup {Err(429, s) : s \in RetryAfterSeconds}

InitBackoff ==
  /\ pc = "withRetry"
  /\ maxIterations = 1
  /\ currentIteration = 0
  /\ queries = EmptyArray
  /\ taskIdx = 0
  /\ sources = "none"
  /\ results = <<>>
  /\ allLearnings = <<>>
  /\ rt = NewRetry("writeFinalReport", MaxRetryOption, NetworkingModel)
  /\ report = NoReport
  /\ reviewCount = 0
  /\ searchRounds = 0
  /\ env = LiveEnv
  /\ liveCalls = {}
  /\ arg = NoArg
  /\ ret = NoRet
  /\ tasks = <<>>
  /\ calls = NotCounted

BackoffAttempt ==
  /\ pc = "withRetry"
  /\ rt.phase = "attempt"
  /\ \E outcome \in BackoffOutcomes : rt' = withRetryAttempt(rt, outcome)
  /\ UNCHANGED <<env, liveCalls, arg, ret, tasks, calls>>
  /\ UNCHANGED <<pc, maxIterations, currentIteration, queries, taskIdx,
                 sources, results, allLearnings, report, reviewCount,
                 searchRounds>>

NextBackoff == BackoffAttempt \/ RetryWake

BackoffSpec == InitBackoff /\ [][NextBackoff]_vars

\* withRetry as the four callers use it for every provider the request can
\* name and every model it can ask for: each attempt creates its provider
\* instance anew from the caller's provider and the context's model
RequestedProviders == {"", "google", "openrouter", "mock"}
RequestedModels == {"", FallbackModel, "openai/gpt-4o"}

InitModels ==
  /\ pc = "withRetry"
  /\ maxIterations = 1
  /\ currentIteration = 0
  /\ queries = EmptyArray
  /\ taskIdx = 0
  /\ sources = "none"
  /\ results = <<>>
  /\ allLearnings = <<>>
  /\ report = NoReport
  /\ reviewCount = 0
  /\ searchRounds = 0
  /\ env \in [useMockMode : BOOLEAN, provider : RequestedProviders,
              searchProvider : {"tavily"}, enableSearch : {TRUE},
              useMockWhenKeysAreMissing : {FALSE}]
  /\ liveCalls = {}
  /\ \E caller \in {"generateSearchQueries", "runSearchTasks",
                    "reviewSearchResults", "writeFinalReport"},
        requestedModel \in RequestedModels :
       /\ arg = [kind |-> "withRetry", requestedModel |-> requestedModel]
       /\ rt = NewRetry(caller, CallerMaxRetries(caller),
                        CallerModel(caller, env.provider, requestedModel))
  /\ ret = [kind |-> "providers", list |-> <<>>]
  /\ tasks = <<>>
  /\ calls = NotCounted

\* fn(context) creates its provider instance and calls it; ret.list keeps
\* the backend and the model of every instance created
ModelsAttempt ==
  /\ pc = "withRetry"
  /\ arg.kind = "withRetry"
  /\ rt.phase = "attempt"
  /\ LET model == ModelToUse(ModelForAttempt(rt), rt.original)
         backend == fnProvider(env, model)
     IN /\ \E outcome \in BackendOutcomes(backend, rt.caller, ProviderErrors) :
             rt' = withRetryAttempt(rt, outcome)
        /\ ret' = [ret EXCEPT !.list =
                     Append(@, [backend |-> backend, model |-> model])]
        /\ liveCalls' = IF backend \in LiveBackends
                          THEN liveCalls \cup {backend} ELSE liveCalls
  /\ UNCHANGED <<env, arg, tasks, calls>>
  /\ UNCHANGED <<pc, maxIterations, currentIteration, queries, taskIdx,
                 sources, results, allLearnings, report, reviewCount,
                 searchRounds>>

NextModels == ModelsAttempt \/ RetryWake

ModelsSpec == InitModels /\ [][NextModels]_vars

\* -------------------------------------------- the functions on their own
\* the state of a specification that runs one function on its arguments
InitCall(name, args) ==
  /\ pc = name
  /\ maxIterations = 1
  /\ currentIteration = 0
  /\ queries = EmptyArray
  /\ taskIdx = 0
  /\ sources = "none"
  /\ results = <<>>
  /\ allLearnings = <<>>
  /\ rt = IdleRetry
  /\ report = NoReport
  /\ reviewCount = 0
  /\ searchRounds = 0
  /\ env = LiveEnv
  /\ liveCalls = {}
  /\ arg \in args
  /\ ret = NoRet
  /\ tasks = <<>>
  /\ calls = NotCounted

\* the function returns or throws; nothing else changes
Call(name, value) ==
  /\ pc = name
  /\ ret = NoRet
  /\ ret' = value
  /\ UNCHANGED <<pc, maxIterations, currentIteration, queries, taskIdx,
                 sources, results, allLearnings, rt, report, reviewCount,
                 searchRounds, env, liveCalls, arg, tasks, calls>>

\* safeJsonParse(text, source, defaultValue) on every short string and on
\* the values that are no string
InitParse == InitCall("safeJsonParse", Strings \cup NonStrings)

SafeJsonParseCall == Call("safeJsonParse", safeJsonParseText(arg))

ParseSpec == InitParse /\ [][SafeJsonParseCall]_vars

\* createProvider(provider, model, options) followed by generateContent on
\* the instance, for every provider name, mock type, mock flag and prompt
ProviderCalls ==
  [provider : ProviderNames, mockType : MockTypes, useMockMode : BOOLEAN,
   prompt : Prompts]

InitProvider == InitCall("createProvider", ProviderCalls)

CreateProviderCall ==
  LET backend == createProvider(arg.provider, arg.mockType, arg.useMockMode)
  IN \E r \in GenerateContent(backend, arg.prompt) :
       Call("createProvider",
            [kind |-> "returned", backend |-> backend, response |-> r])

ProviderSpec == InitProvider /\ [][CreateProviderCall]_vars

\* performSearch(query, options) for every provider name, setting of the
\* three switches and behaviour of the Tavily backend: a failure, or an
\* answer with body raw
SearchCalls ==
  {a \in [searchProvider : SearchProviderNames, useMockMode : BOOLEAN,
          enableSearch : BOOLEAN, useMockWhenKeysAreMissing : BOOLEAN,
          outcome : TavilyOutcomes, raw : RawResponses \cup {NoResponse}] :
     IF a.outcome \in {"hits", "empty"}
       THEN a.raw \in RawResponses /\ TavilyAnswer(a.raw) = a.outcome
       ELSE a.raw = NoResponse}

InitSearch == InitCall("performSearch", SearchCalls)

\* the value returned or the error thrown, with the returned list of results
PerformSearchCall ==
  LET s == performSearch(arg.searchProvider, arg, arg.outcome)
  IN Call("performSearch",
          [threw |-> s.threw, results |-> s.results, error |-> s.error,
           live |-> s.live, list |-> ResultList(s, arg.raw)])

SearchSpec == InitSearch /\ [][PerformSearchCall]_vars

\* POST /api/research/query on every request
InitRoute == InitCall("query", Requests)

QueryCall ==
  Call("query", [response |-> queryHandler(arg), query |-> QueryUsed(arg)])

RouteSpec == InitRoute /\ [][QueryCall]_vars

\* ------------------------------------------- runSearchTasks on its own
\* runSearchTasks(queries, ..., enableSearch, searchProvider, parallelSearch)
\* with the tasks of its queries side by side.  arg holds the call: which
\* queries have a query text, the two flags, and whether import('p-limit')
\* worked.  tasks[i] is the task of query i: where it stands and the attempt
\* number of its withRetry call.
TaskCalls ==
  UNION {[valid : [1..n -> BOOLEAN], parallelSearch : BOOLEAN,
          enableSearch : BOOLEAN, imported : BOOLEAN] : n \in 0..MaxTasks}

Task(p, a) == [pc |-> p, attempt |-> a]

\* any number of tasks at a time
ConcurrencyUnlimited(parallelSearch) == MaxTasks + 1

\* pLimit(parallelSearch ? 3 : 1)
Concurrency(parallelSearch) == IF parallelSearch THEN 3 ELSE 1

\* the tasks the limiter has started and that have not ended
InProgress == {i \in DOMAIN tasks : tasks[i].pc \in {"search", "synth", "sleep"}}

Queued == {i \in DOMAIN tasks : tasks[i].pc = "queued"}

\* a limiter that starts any waiting task
StartsAnyQueued(i) == i \in Queued

\* the limiter starts the tasks in the order queries.map handed them over
StartsNext(i) == i \in Queued /\ \A j \in Queued : i <= j

\* after queries.map: with p-limit every task waits in the limiter; with the
\* replacement of lines 562-564, limit(fn) is fn itself, which nobody calls
InitTasks ==
  /\ pc = "runSearchTasks"
  /\ maxIterations = 1
  /\ currentIteration = 0
  /\ queries = EmptyArray
  /\ taskIdx = 0
  /\ sources = "none"
  /\ results = <<>>
  /\ allLearnings = <<>>
  /\ rt = IdleRetry
  /\ report = NoReport
  /\ reviewCount = 0
  /\ searchRounds = 0
  /\ env = LiveEnv
  /\ liveCalls = {}
  /\ arg \in TaskCalls
  /\ ret = NoRet
  /\ tasks = [i \in DOMAIN arg.valid |->
                Task(IF arg.imported THEN "queued" ELSE "not called", 0)]
  /\ calls = NotCounted

\* what a step of runSearchTasks leaves alone; a task that was started goes
\* on by itself, whether runSearchTasks still waits for it or not
TaskFrame ==
  UNCHANGED <<maxIterations, currentIteration, queries, taskIdx, sources,
              allLearnings, rt, report, reviewCount, searchRounds, env,
              liveCalls, arg, calls>>

\* the limiter calls the task of query i: an invalid query returns null at
\* once, a valid one starts its search or, without search, its synthesis
TaskStart(i) ==
  /\ StartsNext(i)
  /\ Cardinality(InProgress) < Concurrency(arg.parallelSearch)
  /\ tasks' = [tasks EXCEPT ![i] =
                 IF ~arg.valid[i] THEN Task("skipped", 0)
                 ELSE IF arg.enableSearch THEN Task("search", 0)
                 ELSE Task("synth", 0)]
  /\ UNCHANGED <<pc, results, ret>>
  /\ TaskFrame

\* performSearch returned or threw (the error is caught): the synthesis starts
TaskSearched(i) ==
  /\ tasks[i].pc = "search"
  /\ tasks' = [tasks EXCEPT ![i] = Task("synth", 0)]
  /\ UNCHANGED <<pc, results, ret>>
  /\ TaskFrame

\* an attempt of the synthesis failed with a retryable status and withRetry
\* sleeps before the next one
TaskSynthRetry(i) ==
  /\ tasks[i].pc = "synth"
  /\ tasks[i].attempt < SynthMaxRetries
  /\ tasks' = [tasks EXCEPT ![i] = Task("sleep", tasks[i].attempt)]
  /\ UNCHANGED <<pc, results, ret>>
  /\ TaskFrame

TaskWake(i) ==
  /\ tasks[i].pc = "sleep"
  /\ tasks' = [tasks EXCEPT ![i] = Task("synth", tasks[i].attempt + 1)]
  /\ UNCHANGED <<pc, results, ret>>
  /\ TaskFrame

\* withRetry resolved, or rejected and the fallback content is used: the
\* task pushes its result (line 671) and ends
TaskPush(i) ==
  /\ tasks[i].pc = "synth"
  /\ tasks' = [tasks EXCEPT ![i] = Task("done", tasks[i].attempt)]
  /\ results' = Append(results, i)
  /\ UNCHANGED <<pc, ret>>
  /\ TaskFrame

\* a return that waits for no task
AllSettledNotAwaited == TRUE

\* await Promise.allSettled(tasks): every task has fulfilled or rejected;
\* functions that were never called count as settled values
AllSettled ==
  \A i \in DOMAIN tasks : tasks[i].pc \in {"done", "skipped", "not called"}

\* Promise.allSettled(tasks) is settled and runSearchTasks returns {results}
TasksReturn ==
  /\ pc = "runSearchTasks"
  /\ AllSettled
  /\ pc' = "returned"
  /\ ret' = [kind |-> "returned", results |-> results]
  /\ UNCHANGED <<results, tasks>>
  /\ TaskFrame

NextTasks ==
  \/ \E i \in DOMAIN tasks :
       TaskStart(i) \/ TaskSearched(i) \/ TaskSynthRetry(i) \/ TaskWake(i)
         \/ TaskPush(i)
  \/ TasksReturn

TasksSpec == InitTasks /\ [][NextTasks]_vars

\* ================================================================ claims
IsPrefix(a, b) == Len(a) <= Len(b) /\ SubSeq(b, 1, Len(a)) = a

Returned(r) == r.kind \in {"llm", "degraded", "fatal"}

NonEmptyString(r) == Returned(r) /\ r.text.kind \in {"blank", "lines"}

RetryableFailure(e) == ~e.ok /\ e.status \in {429, 500, 503}

\* C1: performDirectResearch never raises: whatever the provider and search
\* calls do, no error leaves it, and when it is done it has returned a value.
C1_NeverRaises ==
  /\ report.kind # "thrown"
  /\ pc = "Done" => Returned(report)

\* the outermost catch block turned an error into the returned report
C1_Witness == pc = "Done" /\ report.kind = "fatal"

\* C2: the value returned by performDirectResearch is a non-empty string,
\* whatever text the final-synthesis provider call returns.
C2_ReportNonEmpty == pc = "Done" => NonEmptyString(report)

\* C3: with maxIterations = N >= 1 a session calls reviewSearchResults at
\* most N-1 times and runSearchTasks at most N times, and a review runs only
\* while currentIteration < maxIterations.
C3_BoundedRounds ==
  maxIterations >= 1 =>
    /\ reviewCount <= maxIterations - 1
    /\ searchRounds <= maxIterations
    /\ pc = "ReviewWait" => currentIteration < maxIterations

\* a session that used all its reviews and rounds
C3_Witness ==
  /\ pc = "Done"
  /\ maxIterations >= 2
  /\ reviewCount = maxIterations - 1
  /\ searchRounds = maxIterations

\* C4: every session terminates: when every call returns or fails, the
\* session reaches Done.
C4_Terminates == <>(pc = "Done")

\* a session that is done after a review, an additional round and a retry
C4_Witness ==
  /\ pc = "Done"
  /\ reviewCount >= 1
  /\ searchRounds >= 2
  /\ report.kind = "llm"

\* C5: the learning set is append-only: every step leaves the previous
\* learning set as a prefix of the new one.
C5_AppendOnly == [][IsPrefix(allLearnings, allLearnings')]_vars

\* findings of an additional round stand behind those of the first round
C5_Witness ==
  /\ Len(allLearnings) >= 2
  /\ allLearnings[1][1] <= 1
  /\ allLearnings[Len(allLearnings)][1] = 2

\* the number of queries a settled review call came back with
NewQueryCount(r) ==
  IF r.phase = "resolved" /\ r.value.kind = "array" THEN Len(r.value.items)
  ELSE 0

\* C6: for maxIterations >= 1, currentIteration <= maxIterations always,
\* currentIteration never decreases, and the review loop ends as soon as
\* currentIteration reaches maxIterations or a review yields zero new queries.
C6_LoopEnds ==
  [][maxIterations >= 1 =>
       /\ currentIteration' <= maxIterations'
       /\ currentIteration' >= currentIteration
       /\ (pc = "Loop" /\ currentIteration >= maxIterations) => pc' = "Step4"
       /\ (pc = "ReviewWait" /\ pc' # "ReviewWait" /\ NewQueryCount(rt) = 0)
            => pc' = "Step4"]_vars

\* C7: an operation that fails twice with a retryable status and succeeds on
\* its third call: withRetry is still retrying after the second failure, the
\* second invocation saw the fallback model, and the third invocation's value
\* is what withRetry returns, after exactly 3 invocations.
C7_ThirdCallSucceeds ==
  (Len(rt.log) >= 2 /\ RetryableFailure(rt.log[1]) /\ RetryableFailure(rt.log[2])) =>
    /\ rt.log[2].model = FallbackModel
    /\ Len(rt.log) = 2 => rt.phase \in {"sleep", "attempt"}
    /\ (Len(rt.log) >= 3 /\ rt.log[3].ok) =>
         /\ Len(rt.log) = 3
         /\ rt.phase = "resolved"
         /\ rt.value = rt.log[3].val

\* two retryable failures, then a success on the third invocation
C7_Witness ==
  /\ rt.phase = "resolved"
  /\ Len(rt.log) = 3
  /\ RetryableFailure(rt.log[1])
  /\ RetryableFailure(rt.log[2])
  /\ rt.log[3].ok

\* C8: an error that is not retryable (no status, or a status outside
\* retryableStatusCodes) ends withRetry at once: no further invocation, no
\* sleep, and withRetry rejects with that same error; whenever withRetry
\* rejects, also on exhausted retries, it rejects with the last attempt's
\* error, unwrapped.
C8_PropagatesAsIs ==
  /\ \A i \in 1..Len(rt.log) :
       (~rt.log[i].ok /\ ~RetryableFailure(rt.log[i])) =>
         /\ i = Len(rt.log)
         /\ rt.phase = "rejected"
         /\ Len(rt.sleeps) = i - 1
         /\ rt.sleeping = 0
  /\ rt.phase = "rejected" =>
       /\ Len(rt.log) >= 1
       /\ ~rt.log[Len(rt.log)].ok
       /\ rt.error.id = Len(rt.log)
       /\ rt.error.status = rt.log[Len(rt.log)].status
       /\ rt.error.retryAfter = rt.log[Len(rt.log)].retryAfter

\* a first attempt that failed with a status that is not retried
C8_Witness ==
  /\ rt.phase = "rejected"
  /\ Len(rt.log) = 1
  /\ rt.log[1].status = 404
  /\ rt.sleeps = <<>>

\* C9: withRetry rejects with a retryable error only after maxRetries+1
\* invocations, and never invokes the operation more than maxRetries+1 times.
C9_RetryableOnlyWhenExhausted ==
  /\ Len(rt.log) <= rt.maxRetries + 1
  /\ (rt.phase = "rejected" /\ rt.error.status \in {429, 500, 503}) =>
       Len(rt.log) = rt.maxRetries + 1

\* the synthesis call gave up after its three attempts were rate limited
C9_Witness ==
  /\ rt.caller = "runSearchTasks"
  /\ rt.phase = "rejected"
  /\ Len(rt.log) = 3
  /\ rt.error.status = 429

\* C10: attempt 0 runs with the original model and every later attempt of
\* the same withRetry call runs with the fallback model.
C10_StaysDowngraded ==
  \A i \in 1..Len(rt.log) :
    rt.log[i].model = IF i = 1 THEN rt.original ELSE FallbackModel

\* four failed attempts, the last three on the fallback model
C10_Witness ==
  /\ Len(rt.log) = 4
  /\ rt.phase = "rejected"
  /\ rt.log[1].model # FallbackModel
  /\ rt.log[4].model = FallbackModel

\* C11: safeJsonParse never raises to its caller: for every input text it
\* returns the parsed structure or the default value.
C11_NeverRaises == ret # NoRet => ret.kind = "returned"

\* C12: with the mock flag set, createProvider replaces every requested
\* provider kind by the mock: a step run with provider google, openrouter or
\* any other name gets exactly the response that the same prompt gets with
\* provider mock.
C12_MockModeIndistinguishable ==
  (ret # NoRet /\ arg.useMockMode) =>
    /\ ret.backend \in MockBackends
    /\ ret.backend = createProvider("mock", arg.mockType, TRUE)
    /\ GenerateContent(createProvider("mock", arg.mockType, TRUE), arg.prompt)
         = {ret.response}

\* openrouter was requested under the mock flag and the mock answered
C12_Witness ==
  /\ ret # NoRet
  /\ arg.useMockMode
  /\ arg.provider = "openrouter"
  /\ ret.response = "queryGeneration.technical"

\* C13: with USE_MOCK_MODE set, no request goes to a live LLM backend or to
\* a live search backend during a whole session, whatever providers the
\* request names.
C13_NoLiveCallInMockMode == env.useMockMode => liveCalls = {}

\* a finished mock-mode session that named google and tavily, searched and
\* got its report from the provider
C13_Witness ==
  /\ pc = "Done"
  /\ env.useMockMode
  /\ env.provider = "google"
  /\ env.searchProvider = "tavily"
  /\ searchRounds >= 2
  /\ report.kind = "llm"

\* the provider name performSearch works with
RequestedSearch(a) == IF a.searchProvider = "" THEN "tavily" ELSE a.searchProvider

\* C19: performSearch returns the mock results, without a request to a live
\* backend and without failing, whenever search is disabled or mock mode is
\* set, whatever backend was requested; an unsupported backend name yields
\* the mock results as well.
C19_MockWithoutLiveCall ==
  (/\ ret # NoRet
   /\ \/ ~arg.enableSearch
      \/ arg.useMockMode
      \/ RequestedSearch(arg) \notin {"tavily", "mock"})
    => /\ ~ret.threw
       /\ ret.results = "mock"
       /\ ~ret.live

\* search is disabled, tavily is requested outside mock mode and its backend
\* would have failed
C19_Witness ==
  /\ ret # NoRet
  /\ ~arg.enableSearch
  /\ ~arg.useMockMode
  /\ arg.searchProvider = "tavily"
  /\ arg.outcome = "status429"
  /\ ret.results = "mock"

\* the live backend is asked and fails
LiveSearchFails(a) ==
  /\ a.enableSearch
  /\ ~a.useMockMode
  /\ RequestedSearch(a) = "tavily"
  /\ a.outcome \in {"nokey", "status429", "network"}

\* C20: when the live backend is requested and lacks its API key or its call
\* fails, performSearch returns the mock results if useMockWhenKeysAreMissing
\* is set and throws that error if it is not; it never returns an empty or
\* partial result in place of the error.
C20_MockOrError ==
  (ret # NoRet /\ LiveSearchFails(arg)) =>
    IF arg.useMockWhenKeysAreMissing
      THEN ~ret.threw /\ ret.results = "mock"
      ELSE ret.threw /\ ret.error = arg.outcome /\ ret.results = "none"

\* the request was answered with status 429 and the policy is off: the error
\* reached the caller
C20_Witness ==
  /\ ret # NoRet
  /\ LiveSearchFails(arg)
  /\ arg.outcome = "status429"
  /\ ~arg.useMockWhenKeysAreMissing
  /\ ret.threw

\* C14: query generation never produces zero queries: whatever the provider
\* call does, the list handed to the first search round is a non-empty list,
\* and when the call failed it is exactly the three default queries.
C14_NeverZeroQueries ==
  [][(pc = "GenWait" /\ pc' # "GenWait") =>
       /\ pc' = "Step2"
       /\ queries'.kind = "array"
       /\ Len(queries'.items) >= 1
       /\ rt.phase = "rejected" => queries' = DefaultQueries]_vars

\* every finding of a round's results is in the learning set after the round
RoundCollected ==
  (pc = "Collect" /\ pc' # "Collect") =>
    \A i \in 1..Len(results) : \A j \in 1..Len(results[i].learnings) :
      \E k \in 1..Len(allLearnings') : allLearnings'[k] = results[i].learnings[j]

\* C15: a search that raises for one query is isolated: the task goes on to
\* its synthesis with an empty source list, the results of the sibling tasks
\* stay as they are, the remaining tasks still run and every finding of the
\* round is put into the learning set; the session is not aborted.
C15_SearchFailureIsolated ==
  [][/\ (pc = "Task" /\ sources' = "caught") =>
          /\ pc' = "SynthWait"
          /\ rt'.phase = "attempt"
          /\ results' = results
          /\ allLearnings' = allLearnings
          /\ report' = NoReport
     /\ (pc = "SynthWait" /\ pc' # "SynthWait") =>
          /\ IsPrefix(results, results')
          /\ Len(results') > Len(results) =>
               results'[Len(results')].sources = SourceList(sources)
          /\ pc' = IF taskIdx < Len(queries.items) THEN "Task" ELSE "Collect"
          /\ taskIdx' = taskIdx + 1
     /\ RoundCollected
     /\ searchRounds >= 1 => report'.kind \in {"none", "llm", "degraded"}]_vars

\* three queries, the search of the second one raised, and the first one's
\* result is in the results
C15_Witness ==
  /\ pc = "SynthWait"
  /\ Len(queries.items) = 3
  /\ taskIdx = 2
  /\ sources = "caught"
  /\ Len(results) = 1
  /\ results[1].query = 1

C17_ZeroQueriesFinalizes ==
  [][/\ (pc = "ReviewWait" /\ pc' # "ReviewWait") =>
          IF NewQueryCount(rt) = 0
            THEN pc' = "Step4" /\ currentIteration' = currentIteration
            ELSE pc' = "Step3Search" /\ queries' = rt.value
     /\ (pc = "Step4" \/ pc = "FinalWait") =>
          /\ searchRounds' = searchRounds
          /\ reviewCount' = reviewCount
     /\ (currentIteration >= 1 /\ currentIteration' # currentIteration) =>
          /\ currentIteration' = currentIteration + 1
          /\ queries.kind = "array"
          /\ Len(queries.items) >= 1]_vars

\* C18: when the final-synthesis call fails, the session returns a degraded
\* report: the error notice followed by every finding of the learning set,
\* numbered 1..n in the order of the learning set.
C18_DegradedReportListsAll ==
  [][(pc = "FinalWait" /\ pc' # "FinalWait" /\ rt.phase = "rejected") =>
       /\ pc' = "Done"
       /\ report'.kind = "degraded"
       /\ report'.text = LinesOf(4 + Len(allLearnings))
       /\ Len(report'.learnings) = Len(allLearnings)
       /\ \A i \in 1..Len(allLearnings) :
            report'.learnings[i] = <<i, allLearnings[i]>>]_vars

\* a degraded report that lists the findings of two rounds
C18_Witness ==
  /\ pc = "Done"
  /\ report.kind = "degraded"
  /\ Len(report.learnings) >= 2
  /\ report.learnings[1][2][1] = 1
  /\ report.learnings[Len(report.learnings)][2][1] = 2

\* C21: every result in the list performSearch returns, from the live backend
\* or from the mock, has a non-empty url and a non-empty content: an item of
\* the backend's answer that lacks either is not in the list.
C21_ResultsHaveUrlAndContent ==
  (ret # NoRet /\ ~ret.threw) =>
    \A i \in 1..Len(ret.list) :
      /\ ret.list[i].content \notin {"missing", ""}
      /\ ret.list[i].url \notin {"missing", ""}

\* the live backend answered two items, one of them without a url, and one
\* result was returned
C21_Witness ==
  /\ ret # NoRet
  /\ ret.results = "hits"
  /\ Len(arg.raw.items) = 2
  /\ \E i \in 1..2 : arg.raw.items[i].url \in {"missing", ""}
  /\ Len(ret.list) = 1

\* C22: no network call blocks the session for ever: whenever the session is
\* about to wait for a provider or search request, it later reaches its
\* final report, because an overall deadline abandons the outstanding call.
C22_DeadlineEndsSession ==
  (~env.useMockMode /\ (ENABLED WithRetryAttempt \/ ENABLED TaskSearch))
    ~> (pc = "Done")

\* the `queries` property of the object generateSearchQueries or
\* reviewSearchResults resolves to once its withRetry call r has settled:
\* {queries: result}, or the value of the catch block
QueriesProperty(r, caught) == IF r.phase = "resolved" THEN r.value ELSE caught

\* C23: generateSearchQueries and reviewSearchResults resolve to an object
\* whose `queries` property is an array, whatever text the provider returned
\* (a JSON array, a JSON object, malformed text) and however it failed.
C23_QueriesIsArray ==
  /\ (pc = "GenWait" /\ Settled(rt)) =>
       QueriesProperty(rt, DefaultQueries).kind = "array"
  /\ (pc = "ReviewWait" /\ Settled(rt)) =>
       QueriesProperty(rt, EmptyArray).kind = "array"

C25_MissingQueryIs400 ==
  (ret # NoRet /\ arg.body = "object" /\ arg.query = "missing") =>
    (ret.response.status = 400 /\ ret.response.error)

\* the sleeps of the withRetry call so far, the one in progress included
SleepsSoFar ==
  IF rt.phase = "sleep" THEN Append(rt.sleeps, rt.sleeping) ELSE rt.sleeps

\* C26: when the failing errors carry no retry-after, the sleep before retry
\* k (k = 0, 1, ...) is min(initialDelay * factor^k, maxDelay); the base
\* delay starts at 1000 ms and doubles after every retry, neither it nor any
\* sleep exceeds 30000 ms; there is exactly one sleep between two consecutive
\* attempts and none after the last.
C26_ExponentialBackoff ==
  /\ \A k \in 1..Len(SleepsSoFar) :
       /\ SleepsSoFar[k] <= MaxDelay
       /\ rt.log[k].retryAfter = NoRetryInfo =>
            SleepsSoFar[k] = Min(InitialDelay * Factor ^ (k - 1), MaxDelay)
  /\ rt.delay = Min(InitialDelay * Factor ^ Len(rt.sleeps), MaxDelay)
  /\ rt.delay <= MaxDelay
  /\ Len(SleepsSoFar) =
       IF Settled(rt) THEN Len(rt.log) - 1 ELSE Len(rt.log)
  /\ Settled(rt) => rt.sleeping = 0

\* six rate-limited attempts without retry-after: the sixth sleep is the
\* first that maxDelay cuts (32000 ms computed)
C26_Witness ==
  /\ rt.phase = "attempt"
  /\ Len(rt.log) = 6
  /\ \A k \in 1..6 : rt.log[k].retryAfter = NoRetryInfo
  /\ rt.sleeps = <<1000, 2000, 4000, 8000, 16000, 30000>>

\* C27: when a retryable error carries a retry-after of s seconds, the sleep
\* before the next attempt is s * 1000 ms instead of the computed backoff
\* delay, for every s.
C27_RetryAfterIsUsed ==
  \A k \in 1..Len(SleepsSoFar) :
    rt.log[k].retryAfter # NoRetryInfo =>
      SleepsSoFar[k] = rt.log[k].retryAfter * 1000

\* the closing character that matches an opening one
Closer(open) == IF open = "[" THEN "]" ELSE "}"

\* the unfenced text t cut to the span from its first '[' or '{' to the last
\* closing character that matches it; a text without such a span is kept
MatchingSpan(t) ==
  LET i == FirstJsonChar(t)
      ends == IF i = 0 THEN {}
              ELSE {j \in (i + 1)..Len(t) : t[j] = Closer(t[i])}
  IN IF ends = {} THEN t
     ELSE SubSeq(t, i, CHOOSE j \in ends : \A k \in ends : k <= j)

\* the first of the three parsing stages that yields valid JSON on span c,
\* else the default value
FirstValidStage(c) ==
  IF JSONparse(c).ok THEN Returns("as-is", JSONparse(c).canon)
  ELSE IF JSONparse(WithDoubleQuotes(c)).ok
    THEN Returns("quotes", JSONparse(WithDoubleQuotes(c)).canon)
  ELSE IF JSONparse(WithQuotedProps(c)).ok
    THEN Returns("props", JSONparse(WithQuotedProps(c)).canon)
  ELSE Returns("default", <<>>)

\* C28: safeJsonParse strips the code fence, trims the text to the span from
\* the first '[' or '{' to the last matching ']' or '}', and returns the
\* result of the first stage that yields valid JSON (as it is, with single
\* quotes turned into double quotes, with bare keys quoted), else the
\* default value; "not json" gives the default and a fenced empty array [].
C28_FirstValidStage ==
  ret # NoRet =>
    ret = IF arg.js = "string"
            THEN FirstValidStage(MatchingSpan(removeJsonMarkdown(arg.toks)))
            ELSE Returns("default", <<>>)

\* C29: the tasks of runSearchTasks run under the limiter: in the default
\* sequential mode at most 1 task (its search and its synthesis, retry sleeps
\* included) is in progress at any time, in parallel mode at most 3.
C29_LimiterBoundsTasks ==
  pc = "runSearchTasks" =>
    Cardinality(InProgress) <= IF arg.parallelSearch THEN 3 ELSE 1

\* parallel mode with four queries: three tasks are in progress, one of them
\* in a retry sleep, and the fourth waits
C29_Witness ==
  /\ pc = "runSearchTasks"
  /\ arg.parallelSearch
  /\ Cardinality(InProgress) = 3
  /\ \E i \in InProgress : tasks[i].pc = "sleep"
  /\ Queued # {}

\* C30: a result is appended when its query's synthesis ends, and in the
\* default sequential mode that is the order of the queries: the results
\* hold the finished queries, query i before query j for all i < j.
C30_SequentialOrder ==
  /\ \A i \in DOMAIN tasks :
       tasks[i].pc = "done" <=> \E k \in 1..Len(results) : results[k] = i
  /\ (pc \in {"runSearchTasks", "returned"} /\ ~arg.parallelSearch) =>
       \A a, b \in 1..Len(results) : a < b => results[a] < results[b]

\* sequential mode returned the results of three queries in their order,
\* after a retry in the first one
C30_Witness ==
  /\ pc = "returned"
  /\ ~arg.parallelSearch
  /\ ret.results = <<1, 2, 3>>
  /\ tasks[1].attempt > 0

\* how many entries of the results belong to query i
EntriesOf(rs, i) == Cardinality({k \in 1..Len(rs) : rs[k] = i})

\* C31: appends to the shared results are never lost or doubled: in parallel
\* mode, whatever the interleaving of the tasks, once all tasks have settled
\* the results hold exactly one entry per valid query and nothing else.
C31_OneEntryPerValidQuery ==
  (pc = "returned" /\ arg.parallelSearch) =>
    /\ \A i \in DOMAIN arg.valid :
         EntriesOf(ret.results, i) = IF arg.valid[i] THEN 1 ELSE 0
    /\ Len(ret.results) = Cardinality({i \in DOMAIN arg.valid : arg.valid[i]})

\* C32: when import('p-limit') fails, runSearchTasks processes the queries
\* sequentially: every valid query is searched and synthesized, one at a
\* time, and the returned results hold one entry per valid query.
C32_ImportFailureSequential ==
  ~arg.imported =>
    /\ Cardinality(InProgress) <= 1
    /\ pc = "returned" =>
         \A i \in DOMAIN arg.valid :
           arg.valid[i] =>
             (tasks[i].pc = "done" /\ EntriesOf(ret.results, i) = 1)

\* C35: in one round every valid query ends with its synthesis done and
\* exactly one entry in the results; a query without query text runs no
\* search and no synthesis and has no entry; an empty query list gives empty
\* results and no task.
C35_OneResultPerValidQuery ==
  pc = "returned" =>
    /\ \A i \in DOMAIN arg.valid :
         IF arg.valid[i]
           THEN tasks[i].pc = "done" /\ EntriesOf(ret.results, i) = 1
           ELSE tasks[i].pc \in {"skipped", "not called"}
                  /\ EntriesOf(ret.results, i) = 0
    /\ DOMAIN arg.valid = {} => (ret.results = <<>> /\ tasks = <<>>)

\* the findings of the learning set that the first round produced
FirstRoundFindings ==
  {k \in 1..Len(allLearnings) : allLearnings[k][1] = 1}

\* C33: the learning set handed to a review or to the final synthesis is
\* never empty: when the first round produced no finding, the set holds the
\* one generic placeholder finding instead, and no placeholder otherwise.
C33_LearningSetNeverEmpty ==
  pc \in {"Loop", "ReviewWait", "Step4", "FinalWait"} =>
    /\ allLearnings # <<>>
    /\ IF FirstRoundFindings = {}
         THEN /\ Head(allLearnings) = Placeholder
              /\ \A k \in 2..Len(allLearnings) : allLearnings[k] # Placeholder
         ELSE \A k \in 1..Len(allLearnings) : allLearnings[k] # Placeholder

\* the first round gave no finding, a review was made on the placeholder
\* alone, and the final synthesis is under way with the placeholder and a
\* finding of the second round
C33_Witness ==
  /\ pc = "FinalWait"
  /\ reviewCount >= 1
  /\ Head(allLearnings) = Placeholder
  /\ Len(allLearnings) >= 2

\* C34: the final synthesis starts only after every query task has settled:
\* once runSearchTasks has returned to the session, which calls
\* writeFinalReport only after that, no search, synthesis or retry sleep of
\* a task is outstanding and no task waits to start, so the results it
\* returned are never appended to afterwards.
C34_NothingOutstandingAfterReturn ==
  pc = "returned" =>
    /\ InProgress = {}
    /\ Queued = {}
    /\ results = ret.results

\* parallel mode returned after four tasks, the last of which had slept
\* before a retry
C34_Witness ==
  /\ pc = "returned"
  /\ arg.parallelSearch
  /\ Len(ret.results) = 4
  /\ tasks[ret.results[4]].attempt > 0

\* the provider call of attempt k answered with a text that no stage of the
\* parser can parse, or with no text
ParseFailure(k) == rt.log[k].text.kind \in {"unparsable", "nonstring"}

\* C36: a parse failure is not retried: when the provider call of
\* generateSearchQueries or reviewSearchResults succeeds but its text cannot
\* be parsed, that invocation is the last one of the step, no sleep follows
\* and the model is not downgraded because of it, and the step yields its
\* default value (the three default queries, respectively no queries).
C36_ParseFailureNotRetried ==
  rt.caller \in {"generateSearchQueries", "reviewSearchResults"} =>
    \A k \in 1..Len(rt.log) :
      ParseFailure(k) =>
        /\ k = Len(rt.log)
        /\ Settled(rt)
        /\ rt.sleeping = 0
        /\ Len(rt.sleeps) = k - 1
        /\ k = 1 => (rt.sleeps = <<>> /\ rt.ctxModel = rt.original)
        /\ QueriesProperty(rt, IF rt.caller = "generateSearchQueries"
                                 THEN DefaultQueries ELSE EmptyArray)
             = IF rt.caller = "generateSearchQueries"
                 THEN DefaultQueries ELSE EmptyArray

\* the first answer to the query generation could not be parsed: one
\* invocation, resolved with the default queries
C36_Witness ==
  /\ rt.caller = "generateSearchQueries"
  /\ Len(rt.log) = 1
  /\ rt.log[1].text.kind = "unparsable"
  /\ rt.phase = "resolved"
  /\ rt.value = DefaultQueries

\* the model getModel chose for the step that calls withRetry in a session
\* that requests no model
StepModel(caller) == CallerModel(caller, env.provider, "")

\* C37: a model downgrade is confined to the withRetry operation in which it
\* happened: every step of a session (query generation, each synthesis, each
\* review, the final synthesis) makes its attempt 0 with the session's
\* original model, whatever model an earlier step of the session ended on.
C37_DowngradeConfinedToOperation ==
  rt.phase # "idle" =>
    /\ rt.original = StepModel(rt.caller)
    /\ rt.log = <<>> => rt.ctxModel = StepModel(rt.caller)
    /\ rt.log # <<>> => rt.log[1].model = StepModel(rt.caller)

\* the step before the final synthesis ended on the fallback model and the
\* final synthesis has made its attempt 0 with the networking model
C37_Witness ==
  /\ rt.caller = "writeFinalReport"
  /\ rt.prevModel = FallbackModel
  /\ rt.log # <<>>
  /\ rt.log[1].model = NetworkingModel

\* C38: retrying never changes the provider kind: all attempts of one
\* withRetry operation create their instance on the same backend, the one
\* createProvider chooses for the requested provider; the first attempt uses
\* the model getModel chose and every later attempt "gemini-1.5-flash",
\* whatever the provider kind and the requested model.
C38_RetryKeepsProviderKind ==
  (pc = "withRetry" /\ arg.kind = "withRetry") =>
    \A i \in 1..Len(ret.list) :
      /\ ret.list[i].backend
           = createProvider(env.provider, "", env.useMockMode)
      /\ ret.list[i].model
           = IF i = 1
               THEN CallerModel(rt.caller, env.provider, arg.requestedModel)
               ELSE "gemini-1.5-flash"

\* an operation on OpenRouter with a requested model was retried: its second
\* instance is an OpenRouter one again, asked for gemini-1.5-flash
C38_Witness ==
  /\ pc = "withRetry"
  /\ arg.kind = "withRetry"
  /\ arg.requestedModel = "openai/gpt-4o"
  /\ Len(ret.list) >= 2
  /\ ret.list[1] = [backend |-> "openrouter", model |-> "openai/gpt-4o"]
  /\ ret.list[2] = [backend |-> "openrouter", model |-> FallbackModel]

\* the invocations one withRetry call of the caller can make
MaxInvocations(caller) == IF caller = "runSearchTasks" THEN 3 ELSE 4

\* the bound of the claim on the provider invocations of a session that may
\* run n rounds and was handed q queries in all
InvocationBound(n, q) == 4 + 3 * q + 4 * (n - 1) + 4

\* a session that was handed queries, searched for every one of them, made
\* every invocation its withRetry calls allow, so that calls.most is the
\* number of invocations made, and got its report from the provider
RanToTheLimit ==
  /\ calls.exact
  /\ calls.queries >= 1
  /\ calls.search = calls.queries
  /\ report.kind = "llm"

C40_OneRoundWithoutReview ==
  maxIterations <= 1 =>
    /\ reviewCount = 0
    /\ searchRounds <= 1
    /\ pc \notin {"ReviewWait", "Step3Search"}
    /\ pc \in {"Loop", "Step4", "FinalWait", "Done"} => searchRounds = 1
    /\ pc = "Done" => report.kind \in {"llm", "degraded"}

====
